---- MODULE Spec2Model ----
(***************************************************************************)
(* Model of the Velodyne frame assembler (velodyne/frame_converter/impls.rs)*)
(* and of the calibration table check (velodyne/config.rs).                 *)
(*                                                                          *)
(* A point is a record [firing, laser_id, row_idx, azimuth, col_idx]:       *)
(* firing is the serial number of the firing column the sensor produced it  *)
(* in (a ghost field, never read by the code), the other fields are the     *)
(* ones points_to_frames reads and writes.  Option<T> is a sequence of      *)
(* length 0 (None) or 1 (Some).                                             *)
(***************************************************************************)
EXTENDS Integers, Sequences, FiniteSets, TLC

\* ---------------------------------------------------------------- bounds
\* columns the sensor fires in a free-running stream
MaxColumns == 4
\* columns the sensor fires in a regular stream
MaxRegularColumns == 5
\* largest number of columns per revolution of a regular stream
MaxPeriod == 4
\* defective (short) columns per stream
MaxDefects == 1
\* firings of a column that is cut short
ShortFirings == 10
\* points of a column that travel in an earlier packet than the rest of it
PacketCut == 8

\* ------------------------------------------------------------- constants
VLP_16_ELEVAION_INDEX ==
    <<15, 13, 11, 9, 7, 5, 3, 1, 14, 12, 10, 8, 6, 4, 2, 0>>

VLP_32C_ELEVAION_INDEX ==
    <<29, 30, 25, 26, 21, 22, 17, 13, 18, 14, 9, 5, 10, 6, 1, 31, 2, 28, 27,
      23, 24, 20, 19, 15, 16, 12, 11, 8, 7, 4, 3, 0>>

Models == {"Vlp16", "Vlp32"}

\* the number of lasers of a sensor model
Beams(m) == IF m = "Vlp16" THEN Len(VLP_16_ELEVAION_INDEX)
                           ELSE Len(VLP_32C_ELEVAION_INDEX)

\* the row of the grid a laser belongs to
RowIdx(m, laser_id) ==
    IF m = "Vlp16" THEN VLP_16_ELEVAION_INDEX[laser_id + 1]
                   ELSE VLP_32C_ELEVAION_INDEX[laser_id + 1]

None == << >>
Some(x) == << x >>

\* ------------------------------------------------------ points_to_frames
\* slice.sort_by(|a, b| a.row_idx().partial_cmp(&b.row_idx())): a stable sort
RECURSIVE InsertByRow(_, _)
InsertByRow(sorted, p) ==
    IF sorted = << >> THEN << p >>
    ELSE IF sorted[Len(sorted)].row_idx <= p.row_idx THEN Append(sorted, p)
    ELSE Append(InsertByRow(SubSeq(sorted, 1, Len(sorted) - 1), p),
                sorted[Len(sorted)])

RECURSIVE SortByRowFrom(_, _, _)
SortByRowFrom(s, i, acc) ==
    IF i > Len(s) THEN acc ELSE SortByRowFrom(s, i + 1, InsertByRow(acc, s[i]))

sort_by_row_idx(s) == SortByRowFrom(s, 1, << >>)

\* for i in 0..(len / beam_num): sort remaining_points[i*beam_num .. i*beam_num+beam_num]
RECURSIVE SortChunksFrom(_, _, _)
SortChunksFrom(pts, beam_num, i) ==
    IF i >= Len(pts) \div beam_num THEN pts
    ELSE LET lo == i * beam_num + 1
             hi == i * beam_num + beam_num
         IN SortChunksFrom(SubSeq(pts, 1, lo - 1)
                             \o sort_by_row_idx(SubSeq(pts, lo, hi))
                             \o SubSeq(pts, hi + 1, Len(pts)),
                           beam_num, i + 1)

SortChunks(pts, beam_num) == SortChunksFrom(pts, beam_num, 0)

\* the locals of points_to_frames before the first point; built is a ghost:
\* every frame the call has constructed, in order
LoopInit ==
    [frames |-> None, remaining_points |-> << >>, prev_azimuth |-> None,
     remaining_channel |-> << >>, prev_laser_id |-> 0, col_idx_cnt |-> 0,
     beam_num |-> 0, panic |-> "", built |-> << >>]

\* EmitFrame with the buffer copied into the frame, not moved
EmitFrameKeep(st) ==
    IF st.beam_num = 0 THEN [st EXCEPT !.panic = "divide by zero"]
    ELSE LET frame == [data |-> SortChunks(st.remaining_points, st.beam_num),
                       height |-> st.beam_num,
                       width |-> st.col_idx_cnt]
         IN [st EXCEPT !.frames = Some(frame),
                       !.built = Append(@, frame),
                       !.col_idx_cnt = 0]

\* the body of `if pass_zero_azimuth && remaining_points.len() > 0`
EmitFrame(st) ==
    IF st.beam_num = 0 THEN [st EXCEPT !.panic = "divide by zero"]
    ELSE LET frame == [data |-> SortChunks(st.remaining_points, st.beam_num),
                       height |-> st.beam_num,
                       width |-> st.col_idx_cnt]
         IN [st EXCEPT !.remaining_points = << >>,
                       !.frames = Some(frame),
                       !.built = Append(@, frame),
                       !.col_idx_cnt = 0]

\* EndColumn without the update of the column counter
EndColumnNoCount(st) ==
    IF ~(st.prev_laser_id = 15 \/ st.prev_laser_id = 31)
    THEN [st EXCEPT !.panic = "assert prev_laser_id"]
    ELSE IF ~(Len(st.remaining_channel) = 16 \/ Len(st.remaining_channel) = 32)
    THEN [st EXCEPT !.panic = "assert remaining_channel.len"]
    ELSE [st EXCEPT !.beam_num = st.prev_laser_id + 1,
                    !.remaining_points = @ \o st.remaining_channel,
                    !.remaining_channel = << >>]

\* the body of `if prev_laser_id > point.laser_id()`
EndColumn(st) ==
    IF ~(st.prev_laser_id = 15 \/ st.prev_laser_id = 31)
    THEN [st EXCEPT !.panic = "assert prev_laser_id"]
    ELSE IF ~(Len(st.remaining_channel) = 16 \/ Len(st.remaining_channel) = 32)
    THEN [st EXCEPT !.panic = "assert remaining_channel.len"]
    ELSE [st EXCEPT !.beam_num = st.prev_laser_id + 1,
                    !.remaining_points = @ \o st.remaining_channel,
                    !.remaining_channel = << >>,
                    !.col_idx_cnt = @ + 1]

\* Step with the two ifs swapped: the column is closed before the frame is
\* cut
StepColumnFirst(st, point) ==
    LET curr_azimuth == point.azimuth
        pass_zero_azimuth ==
            /\ st.prev_azimuth # None
            /\ curr_azimuth < st.prev_azimuth[1]
        s1 == IF st.prev_laser_id > point.laser_id THEN EndColumn(st) ELSE st
        s2 == IF s1.panic = "" /\ pass_zero_azimuth
                 /\ Len(s1.remaining_points) > 0
              THEN EmitFrame(s1) ELSE s1
    IN IF s2.panic # "" THEN s2
       ELSE [s2 EXCEPT
               !.prev_laser_id = point.laser_id,
               !.remaining_channel =
                   Append(@, [point EXCEPT !.col_idx = s2.col_idx_cnt]),
               !.prev_azimuth = Some(curr_azimuth)]

\* the closure cutting a frame at every azimuth drop, whatever is buffered
StepNoGuard(st, point) ==
    LET curr_azimuth == point.azimuth
        pass_zero_azimuth ==
            /\ st.prev_azimuth # None
            /\ curr_azimuth < st.prev_azimuth[1]
        s1 == IF pass_zero_azimuth THEN EmitFrame(st) ELSE st
        s2 == IF s1.panic = "" /\ s1.prev_laser_id > point.laser_id
              THEN EndColumn(s1) ELSE s1
    IN IF s2.panic # "" THEN s2
       ELSE [s2 EXCEPT
               !.prev_laser_id = point.laser_id,
               !.remaining_channel =
                   Append(@, [point EXCEPT !.col_idx = s2.col_idx_cnt]),
               !.prev_azimuth = Some(curr_azimuth)]

\* one run of the for_each closure
Step(st, point) ==
    LET curr_azimuth == point.azimuth
        pass_zero_azimuth ==
            /\ st.prev_azimuth # None
            /\ curr_azimuth < st.prev_azimuth[1]
        s1 == IF pass_zero_azimuth /\ Len(st.remaining_points) > 0
              THEN EmitFrame(st) ELSE st
        s2 == IF s1.panic = "" /\ s1.prev_laser_id > point.laser_id
              THEN EndColumn(s1) ELSE s1
    IN IF s2.panic # "" THEN s2
       ELSE [s2 EXCEPT
               !.prev_laser_id = point.laser_id,
               !.remaining_channel =
                   Append(@, [point EXCEPT !.col_idx = s2.col_idx_cnt]),
               !.prev_azimuth = Some(curr_azimuth)]

\* the element of a singleton set
TheOne(S) == CHOOSE x \in S : TRUE

\* points[lo..hi].for_each(..), in order; a panic ends the loop.  The locals
\* after the first half are bound as a set element, so that they are computed
\* once, before the second half runs
RECURSIVE ForEach(_, _, _, _)
ForEach(st, points, lo, hi) ==
    IF lo > hi THEN st
    ELSE IF lo = hi THEN (IF st.panic # "" THEN st ELSE Step(st, points[lo]))
    ELSE LET mid == (lo + hi) \div 2
         IN TheOne({ForEach(s, points, mid + 1, hi) :
                        s \in {ForEach(st, points, lo, mid)}})

\* points_to_frames returning only the completed columns as leftover
points_to_frames_no_partial(points) ==
    LET st == ForEach(LoopInit, points, 1, Len(points))
    IN [frames |-> st.frames,
        remain |-> st.remaining_points,
        panic |-> st.panic,
        built |-> st.built]

\* (frames, remain), and whether and why the call panicked
points_to_frames(points) ==
    LET st == ForEach(LoopInit, points, 1, Len(points))
    IN [frames |-> st.frames,
        remain |-> st.remaining_points \o st.remaining_channel,
        panic |-> st.panic,
        built |-> st.built]

\* ------------------------------------------------------------------ state
VARIABLES
    model,             \* the sensor model the converter was built for
    return_type,       \* the converter's return type: single, dual, dynamic
    period,            \* columns per revolution; 0: a free-running stream
    fired,             \* columns the sensor has fired
    az,                \* raw azimuth of the last column fired
    defects,           \* short columns fired
    wire,              \* the converted points of the packet to hand over next
    held,              \* points that follow in the packet after that
    remaining_points,  \* the leftover buffer the caller keeps between calls
    remaining_kind,    \* its variant: Single or Dual
    frame,             \* what the last call returned: None or Some(frame)
    status,            \* running, or the panic that ended the last call
    fed,               \* ghost: every point handed to points_to_frames as new
    emitted,           \* ghost: every frame returned so far
    built,             \* ghost: the frames the last call constructed
    halves,            \* ghost: every packet so far held half a revolution
    split,             \* points of a sequence given whole that go in the first
                       \* of two calls (0 in a stream fired column by column)
    text,              \* the calibration table last given to from_str
    loaded,            \* what from_str returned for it
    buffer,            \* the byte slice last given to Packet::from_slice
    decoded,           \* what from_slice returned for it
    shape              \* ghost: the variants (Single, Dual) of the points the
                       \* last call converted and of the frame it returned

vars == <<model, return_type, period, fired, az, defects, wire, held,
          remaining_points, remaining_kind, frame, status, fed, emitted,
          built, halves, split, text, loaded, buffer, decoded, shape>>

ReturnTypes == {"single", "dual", "dynamic"}

Kinds(rt) == IF rt = "single" THEN {"Single"}
             ELSE IF rt = "dual" THEN {"Dual"} ELSE {"Single", "Dual"}

\* ------------------------------------------------- sensor and converter
\* the points the converter makes of one firing column of which the first
\* len lasers fired
Column(m, firing, azimuth, len) ==
    [i \in 1..len |-> [firing |-> firing, laser_id |-> i - 1,
                        row_idx |-> RowIdx(m, i - 1), azimuth |-> azimuth,
                        col_idx |-> 0]]

\* how many lasers of a column may fire: all, as many as the smaller model
\* has, or ShortFirings
ColumnLens(m) ==
    {n \in {ShortFirings} \cup {Beams(x) : x \in Models} : n <= Beams(m)}

\* the return modes a packet handed to a converter may declare
Modes(rt) == IF rt = "single" THEN {"StrongestReturn", "Unknown"}
             ELSE IF rt = "dual" THEN {"DualReturn", "Unknown"}
             ELSE {"StrongestReturn", "DualReturn", "Unknown"}

\* pcd_converter.convert(packet): fails on an unknown return mode
convert(packet, rt) ==
    IF packet.mode = "Unknown" THEN [ok |-> FALSE, kind |-> "", points |-> << >>]
    ELSE [ok |-> TRUE,
          kind |-> IF rt = "dynamic"
                   THEN (IF packet.mode = "DualReturn" THEN "Dual" ELSE "Single")
                   ELSE CHOOSE k \in Kinds(rt) : TRUE,
          points |-> packet.points]

\* the sensor fires one more column; a packet may end after its first
\* PacketCut points.  In a regular stream az counts the columns of the
\* revolution, and the column after number period - 1 is number 0.
Fire ==
    /\ status = "running"
    /\ held = << >>
    /\ fired < (IF period = 0 THEN MaxColumns ELSE MaxRegularColumns)
    /\ \E len \in ColumnLens(model), wrap \in BOOLEAN, cut \in BOOLEAN :
        /\ period # 0 => len = Beams(model) /\ wrap = ((az + 1) % period = 0)
        /\ period = 0 => /\ fired = 0 => wrap
                         /\ len # Beams(model) => defects < MaxDefects
        /\ cut => len > PacketCut
        /\ LET a == IF wrap THEN 0 ELSE az + 1
               col == Column(model, fired + 1, a, len)
               k == IF cut THEN PacketCut ELSE len
           IN /\ wire' = wire \o SubSeq(col, 1, k)
              /\ held' = SubSeq(col, k + 1, len)
              /\ az' = a
        /\ defects' = IF len # Beams(model) THEN defects + 1 ELSE defects
    /\ fired' = fired + 1
    /\ UNCHANGED <<model, return_type, period, remaining_points,
                   remaining_kind, frame, status, fed, emitted, built, halves,
                   split, text, loaded, buffer, decoded, shape>>

\* ------------------------------------------------------------- handlers
\* what every call does to the packet queue and the ghosts
Called(n) ==
    /\ wire' = held
    /\ held' = << >>
    /\ halves' = (halves /\ 2 * n = period * Beams(model))
    /\ UNCHANGED <<model, return_type, period, fired, az, defects, split,
                   text, loaded, buffer, decoded>>

\* a panic unwinds out of the call: nothing is returned
Panicked(why, leftover) ==
    /\ status' = why
    /\ remaining_points' = leftover
    /\ frame' = None
    /\ built' = << >>
    /\ UNCHANGED <<fed, emitted>>

\* points_to_frames ran on the leftover chained with the new points
Assembled(new_points) ==
    LET r == points_to_frames(remaining_points \o new_points)
    IN IF r.panic # ""
       THEN Panicked(r.panic, << >>)
       ELSE /\ remaining_points' = r.remain
            /\ frame' = r.frames
            /\ emitted' = emitted \o r.frames
            /\ built' = r.built
            /\ fed' = fed \o new_points
            /\ UNCHANGED status

\* the variants of what a call converted and returned; a frame carries the
\* variant in its type or in its DynamicReturnFrame wrapper
Shaped(conv, returned_kind) ==
    shape' = [converted |-> IF conv.ok THEN conv.kind ELSE "",
              returned |-> IF frame' # None THEN returned_kind ELSE ""]

\* the drain(..) of the leftover is created before convert(..).unwrap() runs:
\* a panic in unwrap drops the Drain, which empties the buffer
convert_single_return ==
    /\ status = "running"
    /\ return_type = "single"
    /\ wire # << >> \/ held # << >>
    /\ \E mode \in Modes(return_type) :
        LET conv == convert([points |-> wire, mode |-> mode], return_type)
        IN /\ IF ~conv.ok THEN Panicked("unwrap on Err", << >>)
              ELSE Assembled(conv.points)
           /\ Shaped(conv, "Single")
    /\ UNCHANGED remaining_kind
    /\ Called(Len(wire))

convert_dual_return ==
    /\ status = "running"
    /\ return_type = "dual"
    /\ wire # << >> \/ held # << >>
    /\ \E mode \in Modes(return_type) :
        LET conv == convert([points |-> wire, mode |-> mode], return_type)
        IN /\ IF ~conv.ok THEN Panicked("unwrap on Err", << >>)
              ELSE Assembled(conv.points)
           /\ Shaped(conv, "Dual")
    /\ UNCHANGED remaining_kind
    /\ Called(Len(wire))

\* convert_dynamic_return taking the variant of the new points for that of
\* the leftover
convert_dynamic_return_merge ==
    /\ status = "running"
    /\ return_type = "dynamic"
    /\ wire # << >> \/ held # << >>
    /\ \E mode \in Modes(return_type) :
        LET conv == convert([points |-> wire, mode |-> mode], return_type)
        IN /\ IF ~conv.ok THEN Panicked("unwrap on Err", remaining_points)
              ELSE Assembled(conv.points)
           /\ remaining_kind' = IF conv.ok THEN conv.kind ELSE remaining_kind
           /\ Shaped(conv, conv.kind)
    /\ Called(Len(wire))

\* convert(..).unwrap() runs first, then the match on the two variants; an
\* arm replaces the Vec inside the variant it matched and wraps the frame in
\* the same variant
convert_dynamic_return ==
    /\ status = "running"
    /\ return_type = "dynamic"
    /\ wire # << >> \/ held # << >>
    /\ \E mode \in Modes(return_type) :
        LET conv == convert([points |-> wire, mode |-> mode], return_type)
        IN /\ IF ~conv.ok THEN Panicked("unwrap on Err", remaining_points)
              ELSE IF conv.kind # remaining_kind
              THEN Panicked("unreachable", remaining_points)
              ELSE Assembled(conv.points)
           /\ Shaped(conv, conv.kind)
    /\ UNCHANGED remaining_kind
    /\ Called(Len(wire))

\* ------------------------------------------------- calibration tables
\* largest table of which every numbering is tried
MaxLasers == 3

Err(msg) == [ok |-> FALSE, config |-> None, error |-> msg]
Ok(config) == [ok |-> TRUE, config |-> Some(config), error |-> ""]

\* from_str without the check of num_lasers
from_str_no_count(t) ==
    IF ~t.parsed THEN Err("serde_yaml")
    ELSE IF ~(t.distance_resolution > 0)
    THEN Err("distance_resolution must be positive")
    ELSE IF ~(\A idx \in 0..(Len(t.lasers) - 1) : idx = t.lasers[idx + 1])
    THEN Err("the laser_id in lasers field must be consecutively counted from 1")
    ELSE Ok([lasers |-> t.lasers, num_lasers |-> t.num_lasers,
             distance_resolution |-> t.distance_resolution])

\* from_str counting the laser ids from 1
from_str_from_one(t) ==
    IF ~t.parsed THEN Err("serde_yaml")
    ELSE IF ~(t.distance_resolution > 0)
    THEN Err("distance_resolution must be positive")
    ELSE IF ~(t.num_lasers = Len(t.lasers))
    THEN Err("the number of element in lasers field does not match num_layers")
    ELSE IF ~(\A idx \in 0..(Len(t.lasers) - 1) : idx + 1 = t.lasers[idx + 1])
    THEN Err("the laser_id in lasers field must be consecutively counted from 1")
    ELSE Ok([lasers |-> t.lasers, num_lasers |-> t.num_lasers,
             distance_resolution |-> t.distance_resolution])

\* ParamsConfig::from_str; t.parsed: serde_yaml::from_str made a ParamsConfig
\* of the text.  A laser is modelled by its laser_id
from_str(t) ==
    IF ~t.parsed THEN Err("serde_yaml")
    ELSE IF ~(t.distance_resolution > 0)
    THEN Err("distance_resolution must be positive")
    ELSE IF ~(t.num_lasers = Len(t.lasers))
    THEN Err("the number of element in lasers field does not match num_layers")
    ELSE IF ~(\A idx \in 0..(Len(t.lasers) - 1) : idx = t.lasers[idx + 1])
    THEN Err("the laser_id in lasers field must be consecutively counted from 1")
    ELSE Ok([lasers |-> t.lasers, num_lasers |-> t.num_lasers,
             distance_resolution |-> t.distance_resolution])

\* n laser ids counted from origin; with dup, the last one repeats the one
\* before it
Numbered(n, origin, dup) ==
    [i \in 1..n |-> IF dup /\ i = n /\ n > 1 THEN origin + i - 2
                    ELSE origin + i - 1]

\* the tables tried: every numbering of up to MaxLasers lasers, and the
\* numberings from 0 and from 1 of 15, 16 and 32 lasers
Tables ==
    {[parsed |-> p, lasers |-> l, num_lasers |-> n, distance_resolution |-> r] :
        p \in BOOLEAN,
        l \in UNION {[1..k -> 0..MaxLasers] : k \in 0..MaxLasers},
        n \in 0..MaxLasers,
        r \in {-1, 0, 2}}
    \cup
    {[parsed |-> TRUE, lasers |-> Numbered(k, o, d), num_lasers |-> n,
      distance_resolution |-> r] :
        k \in {15, 16, 32}, o \in {0, 1}, d \in BOOLEAN, n \in {16, 32},
        r \in {0, 2}}

\* ParamsConfig::load, from_reader: from_str on the text read
load ==
    /\ text = None
    /\ \E t \in Tables :
        /\ text' = Some(t)
        /\ loaded' = Some(from_str(t))
    /\ UNCHANGED <<model, return_type, period, fired, az, defects, wire, held,
                   remaining_points, remaining_kind, frame, status, fed,
                   emitted, built, halves, split, buffer, decoded, shape>>

\* ------------------------------------------------------- Ouster packets
\* COLUMNS_PER_PACKET and PIXELS_PER_COLUMN are set in ouster/consts.rs;
\* from_slice depends on them through size_of::<Packet>() only, and the model
\* keeps them small so that byte slices stay short
COLUMNS_PER_PACKET == 2
PIXELS_PER_COLUMN == 1
\* bytes a slice may have beyond size_of::<Packet>()
MaxExtraBytes == 3
\* byte patterns a slice is filled with
MaxPatterns == 4

\* the fields of the #[repr(C, packed)] structs, in declaration order, with
\* their widths in bytes
PixelFields == << <<"raw_distance", 4>>, <<"reflectivity", 2>>,
                 <<"signal_photons", 2>>, <<"noise_photons", 2>>,
                 <<"_pad", 2>> >>

ColumnHead == << <<"timestamp", 8>>, <<"measurement_id", 2>>,
                <<"frame_id", 2>>, <<"encoder_ticks", 4>> >>

ColumnTail == << <<"raw_valid", 4>> >>

RECURSIVE Width(_)
Width(fields) ==
    IF fields = << >> THEN 0 ELSE fields[1][2] + Width(Tail(fields))

\* size_of::<Pixel>(), size_of::<Column>(), size_of::<Packet>(): packed, so
\* no padding between or after the fields
size_of_Pixel == Width(PixelFields)
size_of_Column ==
    Width(ColumnHead) + PIXELS_PER_COLUMN * size_of_Pixel + Width(ColumnTail)
size_of_Packet == COLUMNS_PER_PACKET * size_of_Column

\* the bytes of the fields laid out from offset off of the bytes b: a field
\* is the little run of bytes the struct places it on
RECURSIVE ReadFields(_, _, _)
ReadFields(b, off, fields) ==
    IF fields = << >> THEN << >>
    ELSE << [name |-> fields[1][1],
             bytes |-> SubSeq(b, off + 1, off + fields[1][2])] >>
         \o ReadFields(b, off + fields[1][2], Tail(fields))

\* the Pixel at offset off
PixelAt(b, off) == ReadFields(b, off, PixelFields)

\* the Column at offset off
ColumnAt(b, off) ==
    [head |-> ReadFields(b, off, ColumnHead),
     pixels |-> [i \in 1..PIXELS_PER_COLUMN |->
                   PixelAt(b, off + Width(ColumnHead) + (i - 1) * size_of_Pixel)],
     tail |-> ReadFields(b, off + Width(ColumnHead)
                               + PIXELS_PER_COLUMN * size_of_Pixel, ColumnTail)]

\* &*(buffer.as_ptr() as *const Packet): the Packet whose columns lie on the
\* bytes of the slice from its first byte on
PacketAt(b) ==
    [columns |-> [c \in 1..COLUMNS_PER_PACKET |->
                    ColumnAt(b, (c - 1) * size_of_Column)]]

\* from_slice accepting every slice that is long enough
from_slice_at_least(b) ==
    IF ~(Len(b) >= size_of_Packet)
    THEN [ok |-> FALSE, packet |-> None,
          error |-> <<"Requre the slice length to be", size_of_Packet,
                      "but get", Len(b)>>]
    ELSE [ok |-> TRUE, packet |-> Some(PacketAt(b)), error |-> << >>]

\* Packet::from_slice
from_slice(b) ==
    IF ~(Len(b) = size_of_Packet)
    THEN [ok |-> FALSE, packet |-> None,
          error |-> <<"Requre the slice length to be", size_of_Packet,
                      "but get", Len(b)>>]
    ELSE [ok |-> TRUE, packet |-> Some(PacketAt(b)), error |-> << >>]

\* the slices tried: every length up to MaxExtraBytes beyond the packet
\* size, filled with one of MaxPatterns byte patterns
Slices ==
    {[i \in 1..n |-> (i * (2 * k + 1) + 85 * k) % 256] :
        n \in 0..(size_of_Packet + MaxExtraBytes), k \in 1..MaxPatterns}

\* a caller hands a slice to from_slice
receive ==
    /\ buffer = None
    /\ \E b \in Slices :
        /\ buffer' = Some(b)
        /\ decoded' = Some(from_slice(b))
    /\ UNCHANGED <<model, return_type, period, fired, az, defects, wire, held,
                   remaining_points, remaining_kind, frame, status, fed,
                   emitted, built, halves, split, text, loaded, shape>>

\* --------------------------------------------------------- specifications
Fresh ==
    /\ model \in Models
    /\ return_type \in ReturnTypes
    /\ remaining_kind \in Kinds(return_type)
    /\ remaining_points = << >>
    /\ frame = None
    /\ status = "running"
    /\ fed = << >>
    /\ emitted = << >>
    /\ built = << >>
    /\ halves = TRUE
    /\ text = None
    /\ loaded = None
    /\ buffer = None
    /\ decoded = None
    /\ shape = [converted |-> "", returned |-> ""]

Init ==
    /\ Fresh
    /\ period = 0
    /\ fired = 0 /\ az = 0 /\ defects = 0
    /\ wire = << >> /\ held = << >>
    /\ split = 0

Next ==
    \/ Fire
    \/ convert_single_return
    \/ convert_dual_return
    \/ convert_dynamic_return

Spec == Init /\ [][Next]_vars

\* a regular stream: every column complete, the azimuth drops every period
\* columns; the stream starts anywhere in a revolution
InitRegular ==
    /\ Fresh
    /\ period \in 2..MaxPeriod
    /\ az \in 0..(period - 1)
    /\ fired = 0 /\ defects = 0
    /\ wire = << >> /\ held = << >>
    /\ split = 0

SpecRegular == InitRegular /\ [][Next]_vars

\* the first n columns of a regular stream
RECURSIVE RegularStream(_, _, _)
RegularStream(m, per, n) ==
    IF n = 0 THEN << >>
    ELSE RegularStream(m, per, n - 1)
            \o Column(m, n, (n - 1) % per, Beams(m))

\* one revolution and the first tail points of the next one
Revolution(m, per, tail) ==
    SubSeq(RegularStream(m, per, per + 1), 1, per * Beams(m) + tail)

\* such a sequence, split anywhere between two calls of convert_single_return
InitSplit ==
    /\ Fresh
    /\ return_type = "single"
    /\ period \in 2..MaxPeriod
    /\ fired = period + 1 /\ az = 0 /\ defects = 0
    /\ \E tail \in {1, PacketCut} :
        LET seq == Revolution(model, period, tail)
        IN /\ split \in 0..Len(seq)
           /\ wire = SubSeq(seq, 1, split)
           /\ held = SubSeq(seq, split + 1, Len(seq))

NextSplit == convert_single_return

SpecSplit == InitSplit /\ [][NextSplit]_vars

\* calibration tables are loaded; no packet arrives
InitConfig ==
    /\ Fresh
    /\ model = "Vlp16" /\ return_type = "single"
    /\ period = 0
    /\ fired = 0 /\ az = 0 /\ defects = 0
    /\ wire = << >> /\ held = << >>
    /\ split = 0

NextConfig == load

SpecConfig == InitConfig /\ [][NextConfig]_vars

\* a regular stream handed to convert_dynamic_return
InitDynamic == InitRegular /\ return_type = "dynamic"

NextDynamic == Fire \/ convert_dynamic_return

SpecDynamic == InitDynamic /\ [][NextDynamic]_vars

\* byte slices are decoded; no packet is assembled
InitPacket == InitConfig

NextPacket == receive

SpecPacket == InitPacket /\ [][NextPacket]_vars

\* ------------------------------------------------------------ properties
Running == status = "running"

\* the places of a point sequence where the raw azimuth is lower than that of
\* the point before
Drops(s) == {i \in 2..Len(s) : s[i].azimuth < s[i - 1].azimuth}

\* the points of a sequence that the sensor fired in column k
ColumnSize(s, k) == Cardinality({j \in 1..Len(s) : s[j].firing = k})

\* a point with its column index left out
Raw(p) == [p EXCEPT !.col_idx = 0]

\* C1 (as claimed): every frame returned holds height * width points.
C1FrameGeometry ==
    \A i \in 1..Len(emitted) :
        Len(emitted[i].data) = emitted[i].height * emitted[i].width

\* the points fed so far hold exactly one azimuth drop
C2OneDrop == Running /\ Cardinality(Drops(fed)) = 1

C2DropAt == CHOOSE i \in Drops(fed) : TRUE

\* C2 (as claimed): on a regular stream fed to an empty assembler, once the
\* first point after the single azimuth drop has been processed exactly one
\* frame has been returned, and it holds every point that preceded the drop.
C2FrameHoldsAllBeforeDrop ==
    /\ Running /\ Drops(fed) = {} => emitted = << >>
    /\ C2OneDrop => /\ Len(emitted) = 1
                    /\ Len(emitted[1].data) = C2DropAt - 1

\* C2 (amended): no frame is returned before the first point after the drop
\* is processed.  When one column alone preceded the drop, no frame is
\* returned then either.  Otherwise the call that processes that point
\* returns the one frame, which holds the points that preceded the drop
\* except those of the last column before it; that column stays at the head
\* of the leftover.
C2FrameHoldsAllButLastColumn ==
    /\ Running /\ Drops(fed) = {} => emitted = << >>
    /\ C2OneDrop /\ C2DropAt - 1 <= Beams(model) => emitted = << >>
    /\ C2OneDrop /\ C2DropAt - 1 > Beams(model) =>
        /\ Len(emitted) = 1
        /\ Len(emitted[1].data) = C2DropAt - 1 - Beams(model)
        /\ \A i \in 1..Len(emitted[1].data) :
               emitted[1].data[i].firing < fed[C2DropAt - 1].firing
        /\ Len(remaining_points) >= Beams(model)
        /\ \A i \in 1..Beams(model) :
               Raw(remaining_points[i]) = fed[C2DropAt - Beams(model) + i - 1]

\* the call that processed the first point after the drop has just returned
\* the frame
C2Witness ==
    /\ C2OneDrop
    /\ frame # None
    /\ emitted = frame
    /\ Len(frame[1].data) > 0

\* C3 (as claimed): a call returns at most one frame, and when it constructs
\* more than one the frame it returns is the oldest.
C3ReturnsOldest ==
    /\ Len(frame) <= 1
    /\ Len(built) > 1 => frame = Some(built[1])

\* both calls of a split sequence have returned
C4Done == Running /\ wire = << >> /\ held = << >>

\* C4: a revolution followed by its boundary, split anywhere between two
\* calls, makes the calls return the frame that one call on the whole
\* sequence returns (the same points in the same order with the same column
\* indices, the same height and width), and leaves the same points in the
\* same order as leftover.
C4SplitEqualsWhole ==
    C4Done =>
        LET whole == points_to_frames(fed)
        IN /\ emitted = whole.frames
           /\ Len(remaining_points) = Len(whole.remain)
           /\ \A i \in 1..Len(remaining_points) :
                  Raw(remaining_points[i]) = Raw(whole.remain[i])

\* the split fell inside a column of the revolution and the second call
\* returned the frame
C4Witness ==
    /\ C4Done
    /\ split % Beams(model) # 0
    /\ split < period * Beams(model)
    /\ frame # None
    /\ emitted = frame

\* C5 (as claimed): no call survives the end of a column that has not as
\* many points as the model has lasers, and no frame returned holds a point
\* of such a column.
C5ShortColumnFatal ==
    /\ \A i \in 1..(Len(fed) - 1) :
           fed[i + 1].laser_id < fed[i].laser_id
               => ColumnSize(fed, fed[i].firing) = Beams(model)
    /\ \A n \in 1..Len(emitted) : \A i \in 1..Len(emitted[n].data) :
           ColumnSize(fed, emitted[n].data[i].firing) = Beams(model)

\* k packets of half a revolution each have been processed, on a 16-laser
\* sensor whose stream started at the beginning of a revolution
C6AfterCall(k) ==
    /\ Running
    /\ halves
    /\ model = "Vlp16"
    /\ 2 * Len(fed) = k * period * Beams(model)
    /\ fed[1].azimuth = 0

\* C6 (as claimed): call 1 returns nothing, call 2 returns the frame of the
\* first revolution (height 16, as wide as the revolution), call 3 returns
\* nothing and leaves the half revolution after the boundary.
C6FrameAtSecondCall ==
    /\ C6AfterCall(1) => frame = None /\ emitted = << >>
    /\ C6AfterCall(2) => /\ frame # None
                         /\ Len(emitted) = 1
                         /\ frame[1].height = 16
                         /\ frame[1].width = period
    /\ C6AfterCall(3) => /\ frame = None
                         /\ Len(emitted) = 1
                         /\ 2 * Len(remaining_points) = period * Beams(model)

\* C6 (amended): calls 1 and 2 return nothing; call 3, which sees the azimuth
\* drop, returns the one frame, of height 16 and one column narrower than
\* the revolution, and leaves the last column of the first revolution
\* followed by the half revolution after the boundary.
C6FrameAtThirdCall ==
    /\ C6AfterCall(1) => frame = None /\ emitted = << >>
    /\ C6AfterCall(2) => frame = None /\ emitted = << >>
    /\ C6AfterCall(3) =>
        /\ frame # None
        /\ emitted = frame
        /\ frame[1].height = 16
        /\ frame[1].width = period - 1
        /\ Len(frame[1].data) = (period - 1) * Beams(model)
        /\ 2 * Len(remaining_points) = (period + 2) * Beams(model)
        /\ \A i \in 1..Len(remaining_points) :
               Raw(remaining_points[i])
                   = fed[Len(fed) - Len(remaining_points) + i]

C6Witness == C6AfterCall(3) /\ frame # None /\ period > 2

\* C7 (as claimed): on a regular stream the leftover holds at most one
\* revolution and one partial column.
C7OneRevolutionAndPartial ==
    Running => Len(remaining_points) < (period + 1) * Beams(model)

\* C7 (amended): on a regular stream the leftover holds at most one
\* revolution and one complete column.
C7OneRevolutionAndColumn ==
    Running => Len(remaining_points) <= (period + 1) * Beams(model)

\* the leftover holds the last column of one revolution and all of the next
C7Witness ==
    /\ Running
    /\ emitted # << >>
    /\ Len(remaining_points) = (period + 1) * Beams(model)

\* C8 (as claimed): in every frame returned, each run of height points is
\* one whole firing column, in non-decreasing row order.
C8ColumnsSorted ==
    \A n \in 1..Len(emitted) :
        LET f == emitted[n]
        IN \A k \in 0..(f.width - 1) :
            LET lo == k * f.height + 1
                hi == k * f.height + f.height
            IN /\ hi <= Len(f.data)
               /\ \A i \in lo..hi : f.data[i].firing = f.data[lo].firing
               /\ \A i \in 1..Len(f.data) :
                      f.data[i].firing = f.data[lo].firing => i \in lo..hi
               /\ ColumnSize(fed, f.data[lo].firing) = f.height
               /\ \A i \in lo..(hi - 1) :
                      f.data[i].row_idx <= f.data[i + 1].row_idx

\* C9 (as claimed): a packet the converter fails on does not end the
\* process: no call ends in the panic of unwrap on the converter's error.
C9FailureRecoverable == status # "unwrap on Err"

\* the laser ids go up by one from one entry to the next
Consecutive(l) == \A i \in 1..(Len(l) - 1) : l[i + 1] = l[i] + 1

\* the laser ids are 0, 1, 2, ... in list order
CountedFromZero(l) == \A i \in 1..Len(l) : l[i] = i - 1

Table(t) == [lasers |-> t.lasers, num_lasers |-> t.num_lasers,
             distance_resolution |-> t.distance_resolution]

RECURSIVE FieldBytes(_)
FieldBytes(fs) ==
    IF fs = << >> THEN << >> ELSE fs[1].bytes \o FieldBytes(Tail(fs))

RECURSIVE PixelsBytes(_)
PixelsBytes(ps) ==
    IF ps = << >> THEN << >> ELSE FieldBytes(ps[1]) \o PixelsBytes(Tail(ps))

ColumnBytes(col) ==
    FieldBytes(col.head) \o PixelsBytes(col.pixels) \o FieldBytes(col.tail)

RECURSIVE ColumnsBytes(_)
ColumnsBytes(cs) ==
    IF cs = << >> THEN << >> ELSE ColumnBytes(cs[1]) \o ColumnsBytes(Tail(cs))

\* C11: from_slice fails, returning no packet, on every slice whose length
\* is not size_of::<Packet>(); on a slice of that length it returns a packet
\* with COLUMNS_PER_PACKET columns of PIXELS_PER_COLUMN pixels, whose fields
\* are, in layout order, exactly the bytes of the slice.
C11LengthChecked ==
    buffer # None =>
        LET b == buffer[1]
            r == decoded[1]
        IN /\ r.ok <=> Len(b) = size_of_Packet
           /\ ~r.ok => r.packet = None
           /\ r.ok =>
               /\ Len(r.packet) = 1
               /\ Len(r.packet[1].columns) = COLUMNS_PER_PACKET
               /\ \A c \in 1..COLUMNS_PER_PACKET :
                      /\ Len(r.packet[1].columns[c].pixels) = PIXELS_PER_COLUMN
                      /\ Len(ColumnBytes(r.packet[1].columns[c])) = size_of_Column
               /\ ColumnsBytes(r.packet[1].columns) = b

\* a slice of the right length was decoded
C11Witness ==
    /\ buffer # None
    /\ Len(buffer[1]) = size_of_Packet
    /\ decoded[1].ok

\* the laser ids are 1, 2, 3, ... in list order
CountedFromOne(l) == \A i \in 1..Len(l) : l[i] = i

IdsMessage ==
    "the laser_id in lasers field must be consecutively counted from 1"

ColumnEnds(s) == {j \in 2..Len(s) : s[j].laser_id < s[j - 1].laser_id}

\* the azimuth drops of s, among the drops ds, at which a completed column
\* is buffered: a column ended before the drop, and at or after the last
\* such drop (the column that ends where a frame is cut is buffered anew)
RECURSIVE GuardedDrops(_, _, _)
GuardedDrops(s, ds, last) ==
    IF ds = {} THEN {}
    ELSE LET d == CHOOSE x \in ds : \A y \in ds : x <= y
         IN IF \E j \in ColumnEnds(s) : last <= j /\ j < d
            THEN {d} \cup GuardedDrops(s, ds \ {d}, d)
            ELSE GuardedDrops(s, ds \ {d}, last)

\* a call of an entry point whose conversion succeeded
C13Call == fired' = fired /\ status = "running" /\ status' # "unwrap on Err"
               /\ status' # "unreachable"

\* C13: a call on a regular stream constructs one frame for every point it
\* processes whose azimuth is lower than the previous point's while a
\* completed column is buffered, and none at any other point: an azimuth
\* drop seen with no completed column buffered cuts no frame and does not
\* end the call, and no frame is empty.
C13BoundaryGuard ==
    [][C13Call =>
        LET scan == remaining_points \o wire
        IN /\ status' = "running"
           /\ Len(built') = Cardinality(GuardedDrops(scan, Drops(scan), 0))
           /\ \A k \in 1..Len(built') :
                  Len(built'[k].data) > 0 /\ built'[k].width > 0]_vars

\* the stream began with the last column of a revolution: the first drop was
\* seen with no completed column buffered and cut nothing, the second cut a
\* frame
C13Witness ==
    /\ Running
    /\ Cardinality(Drops(fed)) = 2
    /\ \A d \in Drops(fed) : d > Beams(model)
    /\ Beams(model) + 1 \in Drops(fed)
    /\ Len(emitted) = 1
    /\ frame # None

\* C14 (as claimed): in every frame returned, the points of the k-th run of
\* height points carry col_idx k, for k = 0..width-1, and every col_idx is
\* below the width.
C14SequentialColumns ==
    \A n \in 1..Len(emitted) :
        LET f == emitted[n]
        IN /\ \A i \in 1..Len(f.data) : f.data[i].col_idx < f.width
           /\ \A i \in 1..Len(f.data) :
                  f.data[i].col_idx = (i - 1) \div f.height

\* the points of a sequence of frames, in order
RECURSIVE FramesData(_)
FramesData(fs) ==
    IF fs = << >> THEN << >> ELSE fs[1].data \o FramesData(Tail(fs))

\* what the sensor knows a point by
PointId(p) == <<p.firing, p.laser_id>>

\* the places of a sequence that hold the point the sensor knows by id
Places(s, id) == {i \in 1..Len(s) : PointId(s[i]) = id}

\* C15 (as claimed): as long as no call aborts, every point handed over is
\* exactly once in the frames returned so far and the leftover together,
\* and nothing else is.
C15PointConservation ==
    Running =>
        LET out == FramesData(emitted) \o remaining_points
        IN /\ Len(out) = Len(fed)
           /\ \A i \in 1..Len(fed) :
                  Cardinality(Places(out, PointId(fed[i]))) = 1

\* C16: in convert_dynamic_return the variant of the leftover never changes
\* and a frame returned has that variant; a call whose converted points have
\* the other variant ends in unreachable!(), returns no frame and leaves the
\* leftover as it was, and no other call ends so.
C16ShapeKept ==
    /\ [](return_type = "dynamic" =>
            /\ shape.returned # "" => shape.returned = remaining_kind
            /\ shape.converted # "" /\ shape.converted # remaining_kind
                   => status = "unreachable" /\ frame = None
            /\ status = "unreachable"
                   => shape.converted \in Kinds("dynamic") \ {remaining_kind})
    /\ [][return_type = "dynamic" =>
            /\ remaining_kind' = remaining_kind
            /\ status' = "unreachable" =>
                   /\ remaining_points' = remaining_points
                   /\ fed' = fed
                   /\ emitted' = emitted]_vars

\* a leftover of one variant was there when a packet of the other arrived
C16Witness ==
    /\ return_type = "dynamic"
    /\ status = "unreachable"
    /\ remaining_points # << >>
    /\ emitted # << >>

====
